---- MODULE Spec2Model ----
(***************************************************************************)
(* Model of the provider layer of src/src/services/aiApiService.ts:        *)
(* the stream decoder (BaseApiProvider.processStreamResponse), the shared  *)
(* call protocol (BaseApiProvider.call) and the Kimi tool-call loop        *)
(* (KimiApiProvider.call).                                                 *)
(*                                                                         *)
(* The response body is a sequence of tokens.  A token stands for a run    *)
(* of bytes of the wire format: the frame marker 'data: ', the braces of   *)
(* the JSON payload, one letter of choices[0].delta.content, the           *)
(* finish_reason 'tool_calls', the sentinel '[DONE]', '\r' and '\n'.       *)
(* A text is a sequence of letters.                                        *)
(***************************************************************************)
EXTENDS Integers, Sequences, FiniteSets, TLC

\* ------------------------------------------------------------------ bounds
MaxFrames == 3      \* frames in one response body
MaxCuts == 1        \* chunk boundaries the transport puts inside the body
MaxCallFrames == 1  \* frames in the streamed body of a whole call
MaxRequests == 7    \* requests one call may issue before the model stops it
MaxTools == 2       \* tool calls in one response
MaxLookups == 4     \* direct getProvider calls on the factory
MaxClears == 2      \* clearCache calls on the factory

\* ------------------------------------------------------------- wire format
MARK == "data: "
NL == "\n"
CR == "\r"
LB == "{"
RB == "}"
DONE == "[DONE]"
TOOL == "tool_calls"
Letters == <<"a", "b", "c", "d", "e">>
LetterSet == {Letters[i] : i \in 1..Len(Letters)}

FrameKinds == {"content", "tool", "done", "bad"}

\* The bytes the server writes for the i-th frame of a body.
FrameWire(kind, i) ==
    CASE kind = "content" -> <<MARK, LB, Letters[i], RB, NL>>
      [] kind = "tool"    -> <<MARK, LB, Letters[i], TOOL, RB, NL>>
      [] kind = "done"    -> <<MARK, DONE, CR, NL>>
      [] kind = "bad"     -> <<MARK, LB, Letters[i], NL>>

RECURSIVE BodyWire(_, _)
BodyWire(kinds, i) ==
    IF i > Len(kinds) THEN <<>>
    ELSE FrameWire(kinds[i], i) \o BodyWire(kinds, i + 1)

RECURSIVE KindSeqs(_)
KindSeqs(n) ==
    IF n = 0 THEN {<<>>}
    ELSE KindSeqs(n - 1) \cup
         {Append(s, k) : s \in {t \in KindSeqs(n - 1) : Len(t) = n - 1}, k \in FrameKinds}

\* ---------------------------------------------------------------- variables
VARIABLES
    frames,       \* kinds of the frames of the response body, in order
    wire,         \* tokens of the body the transport has not handed over yet
    cutsLeft,     \* chunk boundaries the transport may still put inside the body
    chunksRead,   \* the chunks reader.read() has resolved with, in order
    pc,           \* position of the call
    readOutcome,  \* how the pending reader.read() settled
    lines,        \* lines of the current chunk the for loop has not visited
    fullContent,  \* processStreamResponse: let fullContent
    delivered,    \* fragments passed to onChunk, in order
    aborted,      \* abortController.signal.aborted
    lockHeld,     \* the reader obtained by response.body.getReader() is held
    releases,     \* number of reader.releaseLock() calls
    result,       \* how processStreamResponse ended
    abortMark,    \* number of fragments delivered when the signal was triggered, -1 before
    doneMark,     \* number of fragments delivered when '[DONE]' was seen, -1 before
    readsAtAbort, \* number of chunks read when the signal was triggered, -1 before
    provider,     \* model id the call was made for
    stream,       \* config.stream !== false
    hasKey,       \* the models store holds an API key for the provider
    fetchOutcome, \* how the pending fetch() settled
    jsonOutcome,  \* how the pending response.json() settled
    toolCallCount, \* KimiApiProvider.call: let toolCallCount
    requests,     \* requests that went out to the provider
    callResult,   \* how provider.call() ended
    unifiedResult, \* how callUnifiedAiApi() ended
    usage,        \* the trackUsage invocations, in order
    followUpMark, \* requests issued when the tool loop went on with the signal triggered, -1 if never
    providers,    \* ApiProviderFactory.providers: model id -> cached instance, 0 when absent
    instances,    \* provider objects constructed so far; the n-th one is instance n
    clears,       \* number of clearCache() calls
    lookups,      \* what each direct getProvider call returned, in order
    httpStatus,   \* response.status of the response fetch() resolved with
    errorData,    \* error.message of the body of a non-success response
    currentMessages, \* the conversation the provider call works on
    sent,         \* the messages of the body of the last request that went out
    messages,     \* the caller's messages array
    args,         \* the call the caller makes: entry point, model id, config
    requestBody,  \* model, stream and tools of the body of the last request that went out
    calls,        \* which of the caller's calls this is, counted from 1
    previous,     \* how the caller's call before this one went
    pairCall,     \* two calls in flight at once: position, arguments, what each was seen to do
    pairLocals,   \* two calls in flight at once: the locals of each activation
    throwMark     \* number of fragments delivered when onChunk first threw, -1 before

decoderVars == <<frames, wire, cutsLeft, chunksRead, readOutcome, lines,
                 fullContent, delivered, lockHeld, releases, result, doneMark>>

abortVars == <<aborted, abortMark, readsAtAbort>>

registryVars == <<providers, instances, clears, lookups>>

pairVars == <<pairCall, pairLocals>>

callVars == <<provider, stream, hasKey, fetchOutcome, jsonOutcome, toolCallCount,
              requests, callResult, unifiedResult, usage, followUpMark, registryVars,
              httpStatus, errorData, currentMessages, sent, messages, args, requestBody,
              calls, previous, pairVars>>

vars == <<decoderVars, abortVars, callVars, pc, throwMark>>

NoResult == [kind |-> "none", text |-> <<>>, error |-> "none"]

\* the message of an upstream error body, and what is left of it when the
\* body does not parse or has no error.message
UpstreamMessage == "quota exceeded"
NoMessage == ""

NoCallResult == [kind |-> "none", text |-> <<>>, error |-> "none", status |-> 0,
                 message |-> NoMessage]

NoResponse == [kind |-> "none", finish |-> "none", content |-> <<>>, ntools |-> 0]

\* lines 541-549: the ids createProvider knows
Models == {"kimi", "deepseek-v3.1"}

\* the ids a caller may pass: the registered ones and one that is not
ModelIds == Models \cup {"gpt-4"}

NoProviders == [m \in ModelIds |-> 0]

\* the map after both registered ids were resolved, 'kimi' first
CachedAll == [m \in ModelIds |->
                 IF m = "kimi" THEN 1 ELSE IF m = "deepseek-v3.1" THEN 2 ELSE 0]

NoId == <<>>

\* no second call in flight
NoPair == <<>>

\* what is recorded of a finished call: whether it made tool rounds, whether
\* its signal was triggered, whether it threw
NoPrevious == [rounds |-> FALSE, cancelled |-> FALSE, failed |-> FALSE]

\* the messages argument of callUnifiedAiApi
CallerMessages ==
    <<[role |-> "user", content |-> <<"2+2?">>, tool_calls |-> <<>>, tool_call_id |-> NoId]>>

\* ------------------------------------------------------------ what a caller passes
\* config.stream: true, false, or the property left out
ConfigStreams == {"true", "false", "unset"}

\* the calls a caller can make: callUnifiedAiApi directly with a config, or
\* callAiApiWithFiles, whose config parameter has no stream property
CallArgs ==
    {a \in [entry : {"direct", "files"}, modelId : ModelIds, stream : ConfigStreams,
            enableSearch : BOOLEAN] :
        a.entry = "files" => a.stream = "unset"}

\* the calls of a caller that makes one call after the other, each decoded
\* as one JSON document
SeqArgs ==
    {a \in CallArgs : /\ a.entry = "direct"
                      /\ ~a.enableSearch
                      /\ a.modelId \in Models
                      /\ a.stream = "false"}

NoArgs == [entry |-> "direct", modelId |-> "kimi", stream |-> "true",
           enableSearch |-> FALSE]

FilesStreamOn(modelId, enableSearch) == "true"

\* src/unnamed/part_006 line 205
FilesStream(modelId, enableSearch) ==
    IF modelId = "kimi" /\ enableSearch THEN "false" ELSE "true"

\* the config callUnifiedAiApi receives: the caller's, or the one
\* callAiApiWithFiles builds (src/unnamed/part_006 lines 202-209)
UnifiedConfig(a) ==
    IF a.entry = "files"
    THEN [stream |-> FilesStream(a.modelId, a.enableSearch), enableSearch |-> a.enableSearch]
    ELSE [stream |-> a.stream, enableSearch |-> a.enableSearch]

\* lines 106-110: DEFAULT_CONFIG.stream
DefaultStream == TRUE

\* lines 304 and 504: the model name the provider was constructed with
ProviderModel(m) == IF m = "kimi" THEN "kimi-k2-0711-preview" ELSE "deepseek-chat"

NoBody == [model |-> "none", stream |-> TRUE, tools |-> FALSE]

\* lines 137-154: { ...DEFAULT_CONFIG, ...config }.stream goes into the body
BaseRequestBody(m, cfg) ==
    [model |-> ProviderModel(m),
     stream |-> IF cfg.stream = "unset" THEN DefaultStream ELSE cfg.stream = "true",
     tools |-> FALSE]

buildRequestBodyKeepsStream(m, cfg) ==
    IF m = "kimi" /\ cfg.enableSearch
    THEN [BaseRequestBody(m, cfg) EXCEPT !.tools = TRUE]
    ELSE BaseRequestBody(m, cfg)

\* lines 344-369: KimiApiProvider adds this.tools and turns stream off when
\* config.enableSearch is set; DeepSeekApiProvider keeps the base body
buildRequestBody(m, cfg) ==
    IF m = "kimi" /\ cfg.enableSearch
    THEN [BaseRequestBody(m, cfg) EXCEPT !.tools = TRUE, !.stream = FALSE]
    ELSE BaseRequestBody(m, cfg)

StreamRequestedNever(cfg) == FALSE

\* lines 280 and 408: config.stream !== false
StreamRequested(cfg) == cfg.stream # "false"

\* ------------------------------------------------------- pure line decoding
\* chunk.split('\n')
RECURSIVE Split(_)
Split(chunk) ==
    IF \A i \in 1..Len(chunk) : chunk[i] # NL THEN <<chunk>>
    ELSE LET p == CHOOSE i \in 1..Len(chunk) :
                      chunk[i] = NL /\ \A j \in 1..(i - 1) : chunk[j] # NL
         IN <<SubSeq(chunk, 1, p - 1)>> \o Split(SubSeq(chunk, p + 1, Len(chunk)))

\* line.startsWith('data: ')
StartsWithData(line) == Len(line) >= 1 /\ line[1] = MARK

\* line.slice(6)
Slice6(line) == Tail(line)

\* String.prototype.trim on the payload
RECURSIVE Trim(_)
Trim(data) ==
    IF data = <<>> THEN data
    ELSE IF Head(data) = CR THEN Trim(Tail(data))
    ELSE IF data[Len(data)] = CR THEN Trim(SubSeq(data, 1, Len(data) - 1))
    ELSE data

IsLetter(t) == t \in LetterSet

\* JSON.parse(data): a payload parses when it is a complete object
JsonParses(data) ==
    /\ Len(data) >= 2
    /\ data[1] = LB
    /\ data[Len(data)] = RB
    /\ \A i \in 2..(Len(data) - 1) : data[i] \in LetterSet \cup {TOOL}

JsonParse(data) ==
    LET body == SubSeq(data, 2, Len(data) - 1)
    IN [content |-> SelectSeq(body, IsLetter),
        finish  |-> IF \E i \in 1..Len(body) : body[i] = TOOL THEN TOOL ELSE "none"]

\* extractStreamContent: the fragment of one parsed frame, <<>> for null
extractStreamContent(parsed) ==
    IF parsed.finish = TOOL THEN <<>> ELSE parsed.content

AccumulateOverwrites(full, content) == content

\* line 196: fullContent += content
Accumulate(full, content) == full \o content

\* lines 198-200: onChunk(content)
Deliver(out, content) == Append(out, content)

OnParseErrorBreaks(st) == [st EXCEPT !.brk = TRUE]

\* lines 208-210: a frame that does not parse is ignored
OnParseError(st) == st

\* lines 184-211: the body of the for loop on one line.  st is
\* [full, out, brk, done]: the accumulated text, the fragments delivered,
\* whether the loop was left by break, whether the line was the sentinel.
LineStep(st, line) ==
    IF ~StartsWithData(line) THEN st
    ELSE LET data == Trim(Slice6(line))
         IN IF data = <<DONE>> THEN [st EXCEPT !.brk = TRUE, !.done = TRUE]
            ELSE IF ~JsonParses(data) THEN OnParseError(st)
            ELSE LET parsed == JsonParse(data)
                     content == extractStreamContent(parsed)
                     st1 == IF content # <<>>
                            THEN [st EXCEPT !.full = Accumulate(st.full, content),
                                            !.out = Deliver(st.out, content)]
                            ELSE st
                 IN IF parsed.finish = TOOL THEN [st1 EXCEPT !.brk = TRUE] ELSE st1

\* lines 183-212 without interleaving: the for loop over the lines of a chunk
RECURSIVE DecodeLines(_, _)
DecodeLines(st, ls) ==
    IF ls = <<>> THEN st
    ELSE LET st1 == LineStep(st, Head(ls))
         IN IF st1.brk THEN st1 ELSE DecodeLines(st1, Tail(ls))

\* lines 171-213 when no read fails and the signal is never triggered
RECURSIVE DecodeChunks(_, _)
DecodeChunks(st, cs) ==
    IF cs = <<>> THEN st
    ELSE DecodeChunks([DecodeLines(st, Split(Head(cs))) EXCEPT !.brk = FALSE], Tail(cs))

EmptyDecode == [full |-> <<>>, out |-> <<>>, brk |-> FALSE, done |-> FALSE]

\* --------------------------------------------------------- the stream decoder
IsAbortErrorNever(err) == FALSE

\* line 216: error instanceof Error && error.name === 'AbortError'
IsAbortError(err) == err = "AbortError"

\* line 222: reader.releaseLock() in the finally block
ReleaseLock ==
    /\ lockHeld' = FALSE
    /\ releases' = releases + 1

ExitStreamNoFinally(err) ==
    IF err = "none" \/ IsAbortError(err)
    THEN /\ ReleaseLock
         /\ pc' = "returned"
         /\ result' = [kind |-> "resolved", text |-> fullContent, error |-> "none"]
    ELSE /\ UNCHANGED <<lockHeld, releases>>
         /\ pc' = "threw"
         /\ result' = [kind |-> "rejected", text |-> <<>>, error |-> err]

\* lines 214-226: catch, finally and return of processStreamResponse
ExitStream(err) ==
    /\ ReleaseLock
    /\ IF err = "none" \/ IsAbortError(err)
       THEN /\ pc' = "returned"
            /\ result' = [kind |-> "resolved", text |-> fullContent, error |-> "none"]
       ELSE /\ pc' = "threw"
            /\ result' = [kind |-> "rejected", text |-> <<>>, error |-> err]

\* line 173: abortController?.signal.aborted
SignalAborted == aborted

\* lines 171-177: top of the while loop up to the call of reader.read()
LoopTop ==
    /\ pc = "check"
    /\ IF SignalAborted
       THEN ExitStream("none")
       ELSE /\ pc' = "reading"
            /\ UNCHANGED <<lockHeld, releases, result>>
    /\ UNCHANGED <<frames, wire, cutsLeft, chunksRead, readOutcome, lines,
                   fullContent, delivered, aborted, abortMark, doneMark, readsAtAbort>>
    /\ UNCHANGED callVars
    /\ UNCHANGED throwMark

\* The transport settles the pending reader.read(): with the next chunk, with
\* done at the end of the body, with AbortError once the signal has errored
\* the body stream, or with a network error.
ReadSettle ==
    /\ pc = "reading"
    /\ pc' = "readSettled"
    /\ IF aborted
       THEN readOutcome' = "AbortError" /\ UNCHANGED <<wire, cutsLeft, chunksRead>>
       ELSE \/ /\ wire = <<>>
               /\ readOutcome' = "done"
               /\ UNCHANGED <<wire, cutsLeft, chunksRead>>
            \/ \E k \in 1..Len(wire) :
                  /\ k < Len(wire) => cutsLeft > 0
                  /\ readOutcome' = "chunk"
                  /\ chunksRead' = Append(chunksRead, SubSeq(wire, 1, k))
                  /\ wire' = SubSeq(wire, k + 1, Len(wire))
                  /\ cutsLeft' = IF k < Len(wire) THEN cutsLeft - 1 ELSE cutsLeft
            \/ /\ readOutcome' = "NetworkError"
               /\ UNCHANGED <<wire, cutsLeft, chunksRead>>
    /\ UNCHANGED <<frames, lines, fullContent, delivered, aborted, lockHeld,
                   releases, result, abortMark, doneMark, readsAtAbort>>
    /\ UNCHANGED callVars
    /\ UNCHANGED throwMark

\* the awaits of the call: fetch(), response.json(), reader.read(), each
\* before and after the awaited promise has settled
Suspended ==
    {"fetching", "fetchSettled", "errorBody", "parsing", "jsonSettled", "reading", "readSettled"}

\* abortController.abort() called by the owner of the controller while the
\* call is suspended in an await
Abort ==
    /\ pc \in Suspended
    /\ ~aborted
    /\ aborted' = TRUE
    /\ abortMark' = Len(delivered)
    /\ readsAtAbort' = Len(chunksRead)
    /\ UNCHANGED <<frames, wire, cutsLeft, chunksRead, pc, readOutcome, lines,
                   fullContent, delivered, lockHeld, releases, result, doneMark>>
    /\ UNCHANGED callVars
    /\ UNCHANGED throwMark

\* lines 177-181: the continuation of await reader.read()
ReadResume ==
    /\ pc = "readSettled"
    /\ IF readOutcome = "chunk"
       THEN /\ lines' = Split(chunksRead[Len(chunksRead)])
            /\ pc' = "lines"
            /\ UNCHANGED <<lockHeld, releases, result>>
       ELSE /\ ExitStream(IF readOutcome = "done" THEN "none" ELSE readOutcome)
            /\ UNCHANGED lines
    /\ readOutcome' = "none"
    /\ UNCHANGED <<frames, wire, cutsLeft, chunksRead, fullContent, delivered,
                   aborted, abortMark, doneMark, readsAtAbort>>
    /\ UNCHANGED callVars
    /\ UNCHANGED throwMark

OnChunkThrowsFirst(before, after) == before

\* lines 195-210: onChunk(content) throws.  The call is inside the try
\* around JSON.parse, after fullContent += content: the catch takes the
\* exception, and the check of finish_reason below the call is skipped.
OnChunkThrows(before, after) == [after EXCEPT !.brk = FALSE]

\* lines 183-212: one iteration of the for loop.  The callback may trigger
\* the caller's own cancellation signal while it runs, and it may throw.
ProcessLine ==
    /\ pc = "lines"
    /\ lines # <<>>
    /\ \E threw \in BOOLEAN :
       LET st0 == [full |-> fullContent, out |-> delivered,
                   brk |-> FALSE, done |-> FALSE]
           called == LineStep(st0, Head(lines)).out # delivered
           st == IF called /\ threw
                 THEN OnChunkThrows(st0, LineStep(st0, Head(lines)))
                 ELSE LineStep(st0, Head(lines))
       IN /\ threw => called
          /\ throwMark' = IF threw /\ throwMark = -1 THEN Len(delivered) + 1
                          ELSE throwMark
          /\ fullContent' = st.full
          /\ delivered' = st.out
          /\ doneMark' = IF st.done /\ doneMark = -1 THEN Len(delivered) ELSE doneMark
          /\ IF st.brk \/ Tail(lines) = <<>>
             THEN lines' = <<>> /\ pc' = "check"
             ELSE lines' = Tail(lines) /\ pc' = "lines"
          /\ \/ UNCHANGED <<aborted, abortMark, readsAtAbort>>
             \/ /\ called
                /\ ~aborted
                /\ aborted' = TRUE
                /\ abortMark' = Len(st.out)
                /\ readsAtAbort' = Len(chunksRead)
    /\ UNCHANGED <<frames, wire, cutsLeft, chunksRead, readOutcome, lockHeld,
                   releases, result>>
    /\ UNCHANGED callVars

\* line 162: the reader has been acquired; the body and its chunking are the input
InitStream ==
    /\ frames \in KindSeqs(MaxFrames)
    /\ wire = BodyWire(frames, 1)
    /\ cutsLeft = MaxCuts
    /\ chunksRead = <<>>
    /\ pc = "check"
    /\ readOutcome = "none"
    /\ lines = <<>>
    /\ fullContent = <<>>
    /\ delivered = <<>>
    /\ aborted \in BOOLEAN
    /\ lockHeld = TRUE
    /\ releases = 0
    /\ result = NoResult
    /\ abortMark = IF aborted THEN 0 ELSE -1
    /\ doneMark = -1
    /\ readsAtAbort = IF aborted THEN 0 ELSE -1
    /\ provider = "none"
    /\ stream = TRUE
    /\ hasKey = TRUE
    /\ fetchOutcome = "none"
    /\ jsonOutcome = NoResponse
    /\ toolCallCount = 0
    /\ requests = 0
    /\ callResult = NoCallResult
    /\ unifiedResult = NoCallResult
    /\ httpStatus = 0
    /\ errorData = NoMessage
    /\ currentMessages = <<>>
    /\ sent = <<>>
    /\ requestBody = NoBody
    /\ calls = 1
    /\ previous = NoPrevious
    /\ throwMark = -1
    /\ pairCall = NoPair
    /\ pairLocals = NoPair
    /\ messages = CallerMessages
    /\ args = NoArgs
    /\ usage = <<>>
    /\ followUpMark = -1
    /\ providers = NoProviders
    /\ instances = 0
    /\ clears = 0
    /\ lookups = <<>>

NextStream == LoopTop \/ ReadSettle \/ Abort \/ ReadResume \/ ProcessLine

SpecStream == InitStream /\ [][NextStream]_vars

\* ------------------------------------------------------------ the call protocol
\* ------------------------------------------------------ the provider factory
Throws == 0

HasNever(modelId) == FALSE

\* line 535: this.providers.has(modelId)
Has(modelId) == providers[modelId] # 0

\* lines 541-550: the new instance, or the throw of the default case
createProvider(modelId) ==
    IF modelId = "kimi" THEN instances + 1
    ELSE IF modelId = "deepseek-v3.1" THEN instances + 1
    ELSE Throws

getProviderSetsFirst(modelId) ==
    /\ providers' = [providers EXCEPT ![modelId] = instances + 1]
    /\ instances' = instances + 1

\* lines 534-539: the argument of set() is evaluated first, so a throw of
\* createProvider leaves the map as it was
getProvider(modelId) ==
    IF Has(modelId) \/ createProvider(modelId) = Throws
    THEN UNCHANGED <<providers, instances>>
    ELSE /\ providers' = [providers EXCEPT ![modelId] = createProvider(modelId)]
         /\ instances' = instances + 1

\* a caller resolves a provider: ApiProviderFactory.getProvider(modelId)
GetProvider ==
    /\ pc = "idle"
    /\ Len(lookups) < MaxLookups
    /\ \E modelId \in ModelIds :
          /\ getProvider(modelId)
          /\ lookups' = Append(lookups, [id |-> modelId,
                                          instance |-> providers'[modelId],
                                          clears |-> clears])
    /\ UNCHANGED <<decoderVars, abortVars, pc, provider, stream, hasKey, fetchOutcome,
                   jsonOutcome, toolCallCount, requests, callResult, unifiedResult,
                   usage, followUpMark, clears>>
    /\ UNCHANGED <<httpStatus, errorData>>
    /\ UNCHANGED <<currentMessages, sent, requestBody>>
    /\ UNCHANGED messages
    /\ UNCHANGED args
    /\ UNCHANGED <<calls, previous>>
    /\ UNCHANGED pairVars
    /\ UNCHANGED throwMark

\* lines 553-555
clearCache ==
    /\ pc = "idle"
    /\ clears < MaxClears
    /\ providers' = NoProviders
    /\ clears' = clears + 1
    /\ UNCHANGED <<decoderVars, abortVars, pc, provider, stream, hasKey, fetchOutcome,
                   jsonOutcome, toolCallCount, requests, callResult, unifiedResult,
                   usage, followUpMark, instances, lookups>>
    /\ UNCHANGED <<httpStatus, errorData>>
    /\ UNCHANGED <<currentMessages, sent, requestBody>>
    /\ UNCHANGED messages
    /\ UNCHANGED args
    /\ UNCHANGED <<calls, previous>>
    /\ UNCHANGED pairVars
    /\ UNCHANGED throwMark

maxToolCalls == 5

FALLBACK == <<"sorry, no reply">>

\* what a non-streaming response body parses to: the finish_reason, the
\* message content and the number of tool calls of choices[0]
Responses ==
    {[kind |-> "ok", finish |-> f, content |-> c, ntools |-> n] :
        f \in {"stop", TOOL}, c \in {<<>>, <<"4">>}, n \in 0..MaxTools}

Failure(err) == [kind |-> err, finish |-> "none", content |-> <<>>, ntools |-> 0]

\* lines 573-574
ProviderName(m) ==
    IF m = "kimi" THEN "Moonshot" ELSE IF m = "deepseek-v3.1" THEN "DeepSeek" ELSE "Unknown"

processResponseContentFirst(data) ==
    IF data.content # <<>> THEN data.content
    ELSE IF data.finish = TOOL THEN <<>> ELSE FALLBACK

\* lines 241-253: processResponse
processResponse(data) ==
    IF data.finish = TOOL THEN <<>>
    ELSE IF data.content # <<>> THEN data.content ELSE FALLBACK

\* a promise fulfilled with text
Returned(text) ==
    [kind |-> "resolved", text |-> text, error |-> "none", status |-> 0,
     message |-> NoMessage]

\* lines 274-276, 292-294: the Error a call throws; its message holds the
\* status and the upstream message of a non-success response
Thrown(err, status, message) ==
    [kind |-> "rejected", text |-> <<>>, error |-> err, status |-> status,
     message |-> message]

\* ------------------------------------------------------------ the conversation
\* tokens of the JSON text of function.arguments: white space, the member
\* "query" with a non-empty string, the member "query" with the empty string
WS == " "
QUERY == "\"query\":\"x\""
EMPTYQUERY == "\"query\":\"\""

\* the tools the provider asks for: function.name and function.arguments
ToolCatalogue ==
    <<[name |-> "$web_search", arguments |-> <<LB, WS, QUERY, RB>>],
      [name |-> "lookup", arguments |-> <<LB, WS, QUERY, RB>>],
      [name |-> "$web_search", arguments |-> <<LB, QUERY>>],
      [name |-> "$web_search", arguments |-> <<LB, WS, RB>>],
      [name |-> "$web_search", arguments |-> <<LB, WS, EMPTYQUERY, RB>>]>>

\* data.choices[0].message.tool_calls of the response to request number
\* round: the i-th tool call of that response is the next entry of the
\* catalogue after the one the response before it started with
ToolCallsOf(data, round) ==
    [i \in 1..data.ntools |->
        [id |-> <<round, i>>,
         name |-> ToolCatalogue[((round + i - 2) % Len(ToolCatalogue)) + 1].name,
         arguments |-> ToolCatalogue[((round + i - 2) % Len(ToolCatalogue)) + 1].arguments]]

SharesArrayYes == TRUE

\* lines 377-379: currentMessages is a new array, [...messages], so a push on
\* it is not a push on the caller's array
SharesArray == FALSE

\* lines 426-430
AssistantMessage(data, toolCalls) ==
    [role |-> "assistant", content |-> data.content, tool_calls |-> toolCalls,
     tool_call_id |-> NoId]

\* line 440: JSON.parse(arguments) does not throw: an object text
ArgsParse(arguments) ==
    /\ Len(arguments) >= 2
    /\ Head(arguments) = LB
    /\ arguments[Len(arguments)] = RB
    /\ \A i \in 2..(Len(arguments) - 1) : arguments[i] \in {WS, QUERY, EMPTYQUERY}

\* line 442: JSON.stringify of the parsed object: the text without white space
ArgsStringify(arguments) == SelectSeq(arguments, LAMBDA t : t # WS)

searchArgsRaw(arguments) == arguments

\* lines 436-447: JSON.parse of the arguments, JSON.stringify of the object
\* when argsObj.query is truthy, the raw string otherwise
searchArgs(arguments) ==
    IF ArgsParse(arguments) /\ (\E i \in DOMAIN arguments : arguments[i] = QUERY)
    THEN ArgsStringify(arguments)
    ELSE arguments

ToolMessageOwnId(toolCall) ==
    [role |-> "tool", content |-> toolCall.arguments, tool_calls |-> <<>>,
     tool_call_id |-> <<0, 1>>]

\* lines 434-464
ToolMessage(toolCall) ==
    [role |-> "tool",
     content |-> IF toolCall.name = "$web_search" THEN searchArgs(toolCall.arguments)
                 ELSE <<"unsupported tool: ", toolCall.name>>,
     tool_calls |-> <<>>,
     tool_call_id |-> toolCall.id]

RECURSIVE AppendToolMessagesBackwards(_, _)
AppendToolMessagesBackwards(msgs, toolCalls) ==
    IF toolCalls = <<>> THEN msgs
    ELSE Append(AppendToolMessagesBackwards(msgs, Tail(toolCalls)), ToolMessage(Head(toolCalls)))

\* lines 433-465: for (const toolCall of toolCalls) currentMessages.push(...)
RECURSIVE AppendToolMessages(_, _)
AppendToolMessages(msgs, toolCalls) ==
    IF toolCalls = <<>> THEN msgs
    ELSE AppendToolMessages(Append(msgs, ToolMessage(Head(toolCalls))), Tail(toolCalls))

\* one trackUsage invocation (src/src/App.vue lines 171-213) and whether it threw
Invocation(providerName, modelId, outputText, threw) ==
    [provider |-> providerName, model |-> modelId, output |-> outputText, threw |-> threw]

\* provider.call() returns text: lines 490-495 (Kimi) and 566-580.  The
\* trackUsage call of KimiApiProvider.call is outside its try, the one of
\* callUnifiedAiApi is inside a try whose catch rethrows.
Resolve(m, text) ==
    /\ pc' = "done"
    /\ \E threwInCall \in (IF m = "kimi" THEN BOOLEAN ELSE {FALSE}), threwInUnified \in BOOLEAN :
          LET inCall == IF m = "kimi"
                        THEN <<Invocation("Moonshot", "kimi", text, threwInCall)>>
                        ELSE <<>>
              inUnified == IF ~threwInCall /\ ProviderName(m) # "Unknown"
                           THEN <<Invocation(ProviderName(m), m, text, threwInUnified)>>
                           ELSE <<>>
          IN /\ usage' = usage \o inCall \o inUnified
             /\ callResult' = IF threwInCall THEN Thrown("UsageHookError", 0, NoMessage)
                               ELSE Returned(text)
             /\ unifiedResult' = IF threwInCall \/ (inUnified # <<>> /\ threwInUnified)
                                  THEN Thrown("UsageHookError", 0, NoMessage)
                                  ELSE Returned(text)
    /\ UNCHANGED <<fetchOutcome, requests, sent, requestBody>>

\* provider.call() throws: lines 290-295, 477-482 and 581-584; error is the cause
Reject(err) ==
    /\ pc' = "done"
    /\ callResult' = Thrown(err, 0, NoMessage)
    /\ unifiedResult' = Thrown(err, 0, NoMessage)
    /\ UNCHANGED <<usage, fetchOutcome, requests, sent, requestBody>>

KeyConfiguredAlways == TRUE

\* lines 309-315 and 509-515: getApiKey() finds a key and does not throw
KeyConfigured == hasKey

\* lines 272-277 and 400-405, rethrown at 290-295, 477-482 and 581-584
RejectHttp(status, message) ==
    /\ pc' = "done"
    /\ callResult' = Thrown("HttpError", status, message)
    /\ unifiedResult' = Thrown("HttpError", status, message)
    /\ UNCHANGED <<usage, fetchOutcome, requests, sent, requestBody>>

ResponseOkAlways(status) == TRUE

\* lines 272 and 400: response.ok
ResponseOk(status) == status >= 200 /\ status <= 299

\* the status codes the provider answers with: success, and failures
OkStatuses == {200}
ErrorStatuses == {401, 500}

\* lines 260-270 and 388-398: getApiKey, buildRequestBody, buildHeaders, fetch.
\* fetch() with a signal that is already aborted rejects without a request.
\* The body is JSON.stringify of the conversation as it is at this point.
IssueRequest ==
    IF ~KeyConfigured THEN Reject("MissingCredential")
    ELSE IF aborted
    THEN /\ pc' = "fetchSettled"
         /\ fetchOutcome' = "AbortError"
         /\ UNCHANGED <<requests, callResult, unifiedResult, usage, sent, requestBody>>
    ELSE /\ requests < MaxRequests
         /\ pc' = "fetching"
         /\ fetchOutcome' = "none"
         /\ requests' = requests + 1
         /\ sent' = currentMessages'
         /\ requestBody' = buildRequestBody(args.modelId, UnifiedConfig(args))
         /\ UNCHANGED <<callResult, unifiedResult, usage>>

KimiLoopOneMore(count) ==
    IF count <= maxToolCalls THEN IssueRequest ELSE Resolve("kimi", <<>>)

\* lines 380-387 and 485-495: the while condition of the tool loop; the loop
\* is left with finalResponse still '' when the cap is reached
KimiLoop(count) ==
    IF count < maxToolCalls THEN IssueRequest ELSE Resolve("kimi", <<>>)

\* lines 581-584: getProvider threw, provider.call() was never reached
RejectUnified(err) ==
    /\ pc' = "done"
    /\ unifiedResult' = Thrown(err, 0, NoMessage)
    /\ UNCHANGED <<callResult, usage, fetchOutcome, requests, sent, requestBody>>

CallLocalsOnInstance(msgs) ==
    [currentMessages |-> msgs, toolCallCount |-> toolCallCount]

\* lines 377-384: the locals of one activation of call(): currentMessages is
\* a copy of the messages passed in, toolCallCount starts at 0
CallLocals(msgs) == [currentMessages |-> msgs, toolCallCount |-> 0]

\* lines 559-566: callUnifiedAiApi up to the first await of provider.call()
CallStart ==
    /\ pc = "idle"
    /\ LET m == args.modelId IN
          /\ provider' = m
          /\ stream' = StreamRequested(UnifiedConfig(args))
          /\ getProvider(m)
          /\ currentMessages' = IF ~Has(m) /\ createProvider(m) = Throws
                                THEN currentMessages
                                ELSE CallLocals(messages).currentMessages
          /\ toolCallCount' = IF ~Has(m) /\ createProvider(m) = Throws
                              THEN toolCallCount
                              ELSE CallLocals(messages).toolCallCount
          /\ IF ~Has(m) /\ createProvider(m) = Throws THEN RejectUnified("UnsupportedModel")
             ELSE IF m = "kimi" THEN KimiLoop(toolCallCount')
             ELSE IssueRequest
    /\ UNCHANGED <<decoderVars, abortVars, hasKey, jsonOutcome,
                   followUpMark, clears, lookups>>
    /\ UNCHANGED <<httpStatus, errorData>>
    /\ UNCHANGED messages
    /\ UNCHANGED args
    /\ UNCHANGED <<calls, previous>>
    /\ UNCHANGED pairVars
    /\ UNCHANGED throwMark

\* the body of a response to a request with stream false: one JSON document
\* (a chat completion with content, or one asking for tools), no event frames
JsonDocuments == {<<LB, "4", RB>>, <<LB, TOOL, RB>>}

\* The transport settles the pending fetch(): with a response, with
\* AbortError once the signal is triggered, or with a network error.  The
\* provider answers a request whose body has stream true with event frames
\* and any other request with one JSON document.
FetchSettle ==
    /\ pc = "fetching"
    /\ pc' = "fetchSettled"
    /\ IF aborted
       THEN fetchOutcome' = "AbortError" /\ UNCHANGED <<frames, wire, httpStatus>>
       ELSE \/ /\ fetchOutcome' = "NetworkError"
               /\ UNCHANGED <<frames, wire, httpStatus>>
            \/ /\ fetchOutcome' = "httpError"
               /\ httpStatus' \in ErrorStatuses
               /\ UNCHANGED <<frames, wire>>
            \/ /\ fetchOutcome' = "ok"
               /\ httpStatus' \in OkStatuses
               /\ IF stream /\ requestBody.stream
                  THEN /\ frames' \in KindSeqs(MaxCallFrames)
                       /\ wire' = BodyWire(frames', 1)
                  ELSE IF stream
                  THEN /\ frames' = <<>>
                       /\ wire' \in JsonDocuments
                  ELSE UNCHANGED <<frames, wire>>
    /\ UNCHANGED <<cutsLeft, chunksRead, readOutcome, lines, fullContent, delivered,
                   lockHeld, releases, result, doneMark, abortVars, provider, stream,
                   hasKey, jsonOutcome, toolCallCount, requests, callResult,
                   unifiedResult, usage, followUpMark>>
    /\ UNCHANGED registryVars
    /\ UNCHANGED errorData
    /\ UNCHANGED <<currentMessages, sent, requestBody>>
    /\ UNCHANGED messages
    /\ UNCHANGED args
    /\ UNCHANGED <<calls, previous>>
    /\ UNCHANGED pairVars
    /\ UNCHANGED throwMark

\* lines 265-289 and 393-418: the continuation of await fetch()
FetchResume ==
    /\ pc = "fetchSettled"
    /\ IF fetchOutcome \in {"AbortError", "NetworkError"}
       THEN Reject(fetchOutcome) /\ UNCHANGED lockHeld
       ELSE /\ pc' = IF ~ResponseOk(httpStatus) THEN "errorBody"
                     ELSE IF stream THEN "check" ELSE "parsing"
            /\ lockHeld' = (ResponseOk(httpStatus) /\ stream)
            /\ UNCHANGED <<callResult, unifiedResult, usage, fetchOutcome, requests, sent, requestBody>>
    /\ UNCHANGED <<frames, wire, cutsLeft, chunksRead, readOutcome, lines, fullContent,
                   delivered, releases, result, doneMark, abortVars, provider, stream,
                   hasKey, jsonOutcome, toolCallCount, followUpMark>>
    /\ UNCHANGED registryVars
    /\ UNCHANGED <<httpStatus, errorData>>
    /\ UNCHANGED currentMessages
    /\ UNCHANGED messages
    /\ UNCHANGED args
    /\ UNCHANGED <<calls, previous>>
    /\ UNCHANGED pairVars
    /\ UNCHANGED throwMark

\* lines 272-277 and 400-405: the error body is awaited, then the call throws
HttpErrorResume ==
    /\ pc = "errorBody"
    /\ errorData' \in IF aborted THEN {NoMessage} ELSE {NoMessage, UpstreamMessage}
    /\ RejectHttp(httpStatus, errorData')
    /\ UNCHANGED httpStatus
    /\ UNCHANGED <<decoderVars, abortVars, provider, stream, hasKey, jsonOutcome,
                   toolCallCount, followUpMark>>
    /\ UNCHANGED registryVars
    /\ UNCHANGED currentMessages
    /\ UNCHANGED messages
    /\ UNCHANGED args
    /\ UNCHANGED <<calls, previous>>
    /\ UNCHANGED pairVars
    /\ UNCHANGED throwMark

\* Within one call the provider asks for tools in one way: a response that
\* asks for tools has the content and the number of tool calls of the
\* tool-call responses before it.
SameToolRequest(r) ==
    (r.finish = TOOL /\ r.ntools > 0)
    => \A i \in DOMAIN currentMessages :
          currentMessages[i].role = "assistant"
          => /\ currentMessages[i].content = r.content
             /\ Len(currentMessages[i].tool_calls) = r.ntools

\* The transport settles the pending response.json().
JsonSettle ==
    /\ pc = "parsing"
    /\ pc' = "jsonSettled"
    /\ IF aborted
       THEN jsonOutcome' = Failure("AbortError")
       ELSE jsonOutcome' \in {r \in Responses : SameToolRequest(r)}
                                \cup {Failure("NetworkError")}
    /\ UNCHANGED <<decoderVars, abortVars, provider, stream, hasKey, fetchOutcome,
                   toolCallCount, requests, callResult, unifiedResult, usage,
                   followUpMark>>
    /\ UNCHANGED registryVars
    /\ UNCHANGED <<httpStatus, errorData>>
    /\ UNCHANGED <<currentMessages, sent, requestBody>>
    /\ UNCHANGED messages
    /\ UNCHANGED args
    /\ UNCHANGED <<calls, previous>>
    /\ UNCHANGED pairVars
    /\ UNCHANGED throwMark

\* lines 287-288 and 418-476: the continuation of await response.json()
JsonResume ==
    /\ pc = "jsonSettled"
    /\ IF jsonOutcome.kind # "ok"
       THEN Reject(jsonOutcome.kind)
            /\ UNCHANGED <<toolCallCount, followUpMark, currentMessages>>
       ELSE IF provider # "kimi"
       THEN Resolve(provider, processResponse(jsonOutcome))
            /\ UNCHANGED <<toolCallCount, followUpMark, currentMessages>>
       ELSE IF jsonOutcome.finish = TOOL
       THEN /\ currentMessages' =
                  IF jsonOutcome.ntools > 0
                  THEN AppendToolMessages(
                           Append(currentMessages,
                                  AssistantMessage(jsonOutcome,
                                                   ToolCallsOf(jsonOutcome, requests))),
                           ToolCallsOf(jsonOutcome, requests))
                  ELSE currentMessages
            /\ toolCallCount' = IF jsonOutcome.ntools > 0 THEN toolCallCount + 1
                                ELSE toolCallCount
            /\ followUpMark' = IF /\ followUpMark = -1
                                  /\ aborted
                                  /\ jsonOutcome.ntools > 0
                                  /\ toolCallCount' < maxToolCalls
                               THEN requests
                               ELSE followUpMark
            /\ KimiLoop(toolCallCount')
       ELSE /\ Resolve(provider, IF jsonOutcome.content # <<>> THEN jsonOutcome.content ELSE FALLBACK)
            /\ UNCHANGED <<toolCallCount, followUpMark, currentMessages>>
    /\ messages' = IF SharesArray THEN currentMessages' ELSE messages
    /\ UNCHANGED <<decoderVars, abortVars, provider, stream, hasKey, jsonOutcome>>
    /\ UNCHANGED registryVars
    /\ UNCHANGED <<httpStatus, errorData>>
    /\ UNCHANGED args
    /\ UNCHANGED <<calls, previous>>
    /\ UNCHANGED pairVars
    /\ UNCHANGED throwMark

\* lines 281-285 and 409-415: the continuation of await processStreamResponse()
StreamResume ==
    /\ pc \in {"returned", "threw"}
    /\ IF pc = "threw" THEN Reject(result.error) ELSE Resolve(provider, result.text)
    /\ UNCHANGED <<decoderVars, abortVars, provider, stream, hasKey, jsonOutcome,
                   toolCallCount, followUpMark>>
    /\ UNCHANGED registryVars
    /\ UNCHANGED <<httpStatus, errorData>>
    /\ UNCHANGED currentMessages
    /\ UNCHANGED messages
    /\ UNCHANGED args
    /\ UNCHANGED <<calls, previous>>
    /\ UNCHANGED pairVars
    /\ UNCHANGED throwMark

\* src/src/stores/models.ts lines 102-109: the key of the provider is set or
\* blanked in the models store while the call is suspended
setApiKey ==
    /\ pc \in Suspended
    /\ hasKey' = ~hasKey
    /\ UNCHANGED <<decoderVars, abortVars, pc, provider, stream, fetchOutcome,
                   jsonOutcome, toolCallCount, requests, callResult, unifiedResult,
                   usage, followUpMark, registryVars>>
    /\ UNCHANGED <<httpStatus, errorData>>
    /\ UNCHANGED <<currentMessages, sent, requestBody>>
    /\ UNCHANGED messages
    /\ UNCHANGED args
    /\ UNCHANGED <<calls, previous>>
    /\ UNCHANGED pairVars
    /\ UNCHANGED throwMark

\* the state before the caller's call, the call drawn from argSet
InitSolo(argSet) ==
    /\ frames = <<>>
    /\ wire = <<>>
    /\ cutsLeft = MaxCuts
    /\ chunksRead = <<>>
    /\ pc = "idle"
    /\ readOutcome = "none"
    /\ lines = <<>>
    /\ fullContent = <<>>
    /\ delivered = <<>>
    /\ aborted = FALSE
    /\ lockHeld = FALSE
    /\ releases = 0
    /\ result = NoResult
    /\ abortMark = -1
    /\ doneMark = -1
    /\ readsAtAbort = -1
    /\ provider = "none"
    /\ stream = TRUE
    /\ hasKey \in BOOLEAN
    /\ fetchOutcome = "none"
    /\ jsonOutcome = NoResponse
    /\ toolCallCount = 0
    /\ requests = 0
    /\ callResult = NoCallResult
    /\ unifiedResult = NoCallResult
    /\ httpStatus = 0
    /\ errorData = NoMessage
    /\ currentMessages = <<>>
    /\ sent = <<>>
    /\ requestBody = NoBody
    /\ calls = 1
    /\ previous = NoPrevious
    /\ throwMark = -1
    /\ messages = CallerMessages
    /\ args \in argSet
    /\ usage = <<>>
    /\ followUpMark = -1
    /\ \/ providers = NoProviders /\ instances = 0
       \/ providers = CachedAll /\ instances = 2
    /\ clears = 0
    /\ lookups = <<>>

\* one caller, no other call in flight
InitCallWith(argSet) == InitSolo(argSet) /\ pairCall = NoPair /\ pairLocals = NoPair

\* a caller of callUnifiedAiApi that leaves web search off
InitCall == InitCallWith({a \in CallArgs : a.entry = "direct" /\ ~a.enableSearch})

NextCall ==
    \/ CallStart
    \/ FetchSettle
    \/ FetchResume
    \/ HttpErrorResume
    \/ JsonSettle
    \/ JsonResume
    \/ LoopTop
    \/ ReadSettle
    \/ ReadResume
    \/ ProcessLine
    \/ StreamResume
    \/ Abort
    \/ setApiKey

SpecCall == InitCall /\ [][NextCall]_vars

\* every call a caller can make, through callUnifiedAiApi or through
\* callAiApiWithFiles, with the key configured and the providers cached
InitConfig == InitCallWith(CallArgs) /\ hasKey /\ providers = CachedAll

NextConfig ==
    \/ CallStart
    \/ FetchSettle
    \/ FetchResume
    \/ HttpErrorResume
    \/ JsonSettle
    \/ JsonResume
    \/ LoopTop
    \/ ReadSettle
    \/ ReadResume
    \/ ProcessLine
    \/ StreamResume
    \/ Abort

SpecConfig == InitConfig /\ [][NextConfig]_vars

\* the caller's await of callUnifiedAiApi has settled and the caller makes
\* its second call, with a config and an AbortController of its own.  The
\* activation of the finished call is gone and what was observed of it is
\* put aside; the provider cache, the models store and whatever the
\* finished call left behind in the provider stay as they are.
Return ==
    /\ pc = "done"
    /\ calls = 1
    /\ calls' = calls + 1
    /\ previous' = [rounds |-> requests > 1,
                    cancelled |-> aborted,
                    failed |-> unifiedResult.kind = "rejected"]
    /\ args' \in SeqArgs
    /\ pc' = "idle"
    /\ frames' = <<>>
    /\ wire' = <<>>
    /\ cutsLeft' = MaxCuts
    /\ chunksRead' = <<>>
    /\ readOutcome' = "none"
    /\ lines' = <<>>
    /\ fullContent' = <<>>
    /\ delivered' = <<>>
    /\ aborted' = FALSE
    /\ lockHeld' = FALSE
    /\ releases' = 0
    /\ result' = NoResult
    /\ abortMark' = -1
    /\ doneMark' = -1
    /\ readsAtAbort' = -1
    /\ provider' = "none"
    /\ stream' = TRUE
    /\ fetchOutcome' = "none"
    /\ jsonOutcome' = NoResponse
    /\ requests' = 0
    /\ callResult' = NoCallResult
    /\ unifiedResult' = NoCallResult
    /\ httpStatus' = 0
    /\ errorData' = NoMessage
    /\ sent' = <<>>
    /\ requestBody' = NoBody
    /\ usage' = <<>>
    /\ followUpMark' = -1
    /\ throwMark' = -1
    /\ UNCHANGED <<hasKey, registryVars, toolCallCount, currentMessages, messages>>
    /\ UNCHANGED pairVars

\* two calls one after the other through the cache, which is empty before the first
InitSeq == InitCallWith(SeqArgs) /\ hasKey /\ providers = NoProviders

NextSeq ==
    \/ CallStart
    \/ FetchSettle
    \/ FetchResume
    \/ HttpErrorResume
    \/ JsonSettle
    \/ JsonResume
    \/ Abort
    \/ Return

SpecSeq == InitSeq /\ [][NextSeq]_vars

\* ------------------------------------------- two calls in flight at once
\* Two callers call the same cached provider before either call has
\* settled.  Each action is one continuation of one of the calls: the code
\* from one await to the next, which runs without interruption.
PairCalls == {1, 2}

FrameOnInstance(c) == 1

\* lines 157-165 and 372-384: the locals of call() and of
\* processStreamResponse belong to the activation that declared them
Frame(c) == c

\* what the provider sends to one caller is told apart from what it sends to
\* the other: the first caller's fragments are taken from the front of the
\* letters, the second's from the back
PairLetterIndex(c, j) == IF c = 1 THEN j ELSE Len(Letters) + 1 - j

OwnLetters(c) == {Letters[PairLetterIndex(c, j)] : j \in 1..MaxCallFrames}

\* the messages argument of each caller
PairMessages(c) ==
    <<[role |-> "user", content |-> <<"question", Letters[PairLetterIndex(c, 1)]>>,
       tool_calls |-> <<>>, tool_call_id |-> NoId]>>

\* the JSON completions the provider answers the call of caller c with
PairResponses(c) ==
    {[kind |-> "ok", finish |-> f, content |-> t, ntools |-> n] :
        f \in {"stop", TOOL}, t \in {<<>>, <<Letters[PairLetterIndex(c, 1)]>>},
        n \in 0..MaxTools}

\* within one call the provider asks for tools in one way, as SameToolRequest
PairSameToolRequest(c, r) ==
    (r.finish = TOOL /\ r.ntools > 0)
    => \A i \in DOMAIN pairLocals[c].currentMessages :
          pairLocals[c].currentMessages[i].role = "assistant"
          => /\ pairLocals[c].currentMessages[i].content = r.content
             /\ Len(pairLocals[c].currentMessages[i].tool_calls) = r.ntools

\* the tool calls of such a completion; their ids name the caller
PairToolCalls(c, data, round) ==
    [i \in 1..data.ntools |->
        [ToolCallsOf(data, round)[i] EXCEPT !.id = <<c>> \o ToolCallsOf(data, round)[i].id]]

\* lines 559-566, 372-398 and 256-270: up to the first await fetch()
PairStart(c) ==
    /\ pairCall[c].pc = "idle"
    /\ pairLocals' = [pairLocals EXCEPT ![Frame(c)] =
                         [currentMessages |-> CallLocals(PairMessages(c)).currentMessages,
                          toolCallCount |-> CallLocals(PairMessages(c)).toolCallCount,
                          fullContent |-> <<>>]]
    /\ pairCall' = [pairCall EXCEPT ![c].pc = "fetching",
                                    ![c].sent = pairLocals'[Frame(c)].currentMessages]

\* lines 400-418 and 157-170: fetch() resolved with a response; up to the
\* first await reader.read() or to await response.json()
PairFetched(c) ==
    /\ pairCall[c].pc = "fetching"
    /\ IF StreamRequested([stream |-> pairCall[c].stream])
       THEN /\ \E ks \in KindSeqs(MaxCallFrames) :
                  pairCall' = [pairCall EXCEPT
                      ![c].pc = "reading",
                      ![c].chunks = [j \in 1..Len(ks) |->
                                        FrameWire(ks[j], PairLetterIndex(c, j))]]
            /\ pairLocals' = [pairLocals EXCEPT ![Frame(c)].fullContent = <<>>]
       ELSE /\ pairCall' = [pairCall EXCEPT ![c].pc = "parsing"]
            /\ UNCHANGED pairLocals

\* lines 171-226 and 409-415: reader.read() resolved, with the next chunk
\* (one frame) or with done; the lines of a chunk are decoded and delivered
\* before the next await
PairRead(c) ==
    /\ pairCall[c].pc = "reading"
    /\ IF pairCall[c].chunks = <<>>
       THEN /\ pairCall' = [pairCall EXCEPT ![c].pc = "done",
                                           ![c].text = pairLocals[Frame(c)].fullContent]
            /\ UNCHANGED pairLocals
       ELSE LET st == DecodeLines([full |-> pairLocals[Frame(c)].fullContent,
                                   out |-> pairCall[c].delivered,
                                   brk |-> FALSE, done |-> FALSE],
                                  Split(Head(pairCall[c].chunks)))
            IN /\ pairLocals' = [pairLocals EXCEPT ![Frame(c)].fullContent = st.full]
               /\ pairCall' = [pairCall EXCEPT ![c].delivered = st.out,
                                               ![c].chunks = Tail(pairCall[c].chunks)]

\* lines 287-288 and 418-495: response.json() resolved; a tool round and
\* the next request, or the final text
PairJson(c) ==
    /\ pairCall[c].pc = "parsing"
    /\ \E r \in {x \in PairResponses(c) : PairSameToolRequest(c, x)} :
          LET L == pairLocals[Frame(c)]
              tcs == PairToolCalls(c, r, L.toolCallCount + 1)
          IN IF pairCall[c].model # "kimi"
             THEN /\ pairCall' = [pairCall EXCEPT ![c].pc = "done",
                                                 ![c].text = processResponse(r)]
                  /\ UNCHANGED pairLocals
             ELSE IF r.finish = TOOL /\ r.ntools > 0
             THEN /\ pairLocals' = [pairLocals EXCEPT
                         ![Frame(c)].currentMessages =
                             AppendToolMessages(
                                 Append(L.currentMessages, AssistantMessage(r, tcs)), tcs),
                         ![Frame(c)].toolCallCount = L.toolCallCount + 1]
                  /\ pairCall' =
                         IF pairLocals'[Frame(c)].toolCallCount < maxToolCalls
                         THEN [pairCall EXCEPT
                                  ![c].pc = "fetching",
                                  ![c].sent = pairLocals'[Frame(c)].currentMessages]
                         ELSE [pairCall EXCEPT ![c].pc = "done", ![c].text = <<>>]
             ELSE IF r.finish = TOOL
             THEN /\ pairCall' = [pairCall EXCEPT ![c].pc = "fetching",
                                                 ![c].sent = L.currentMessages]
                  /\ UNCHANGED pairLocals
             ELSE /\ pairCall' = [pairCall EXCEPT
                         ![c].pc = "done",
                         ![c].text = IF r.content # <<>> THEN r.content ELSE FALLBACK]
                  /\ UNCHANGED pairLocals

soloVars == <<decoderVars, abortVars, pc, provider, stream, hasKey, fetchOutcome,
              jsonOutcome, toolCallCount, requests, callResult, unifiedResult, usage,
              followUpMark, registryVars, httpStatus, errorData, currentMessages,
              sent, messages, args, requestBody, calls, previous, throwMark>>

PairStep(c) ==
    /\ \/ PairStart(c)
       \/ PairFetched(c)
       \/ PairRead(c)
       \/ PairJson(c)
    /\ UNCHANGED soloVars

\* both callers are about to call the same cached provider, each with its
\* own messages and its own config.stream
InitPair ==
    /\ InitSolo({NoArgs})
    /\ hasKey
    /\ providers = CachedAll
    /\ \E m \in Models, s \in [PairCalls -> {"true", "false"}] :
          pairCall = [c \in PairCalls |->
                         [pc |-> "idle", model |-> m, stream |-> s[c], chunks |-> <<>>,
                          delivered |-> <<>>, sent |-> <<>>, text |-> <<>>]]
    /\ pairLocals = [c \in PairCalls |->
                        [currentMessages |-> <<>>, toolCallCount |-> 0,
                         fullContent |-> <<>>]]

NextPair == \E c \in PairCalls : PairStep(c)

SpecPair == InitPair /\ [][NextPair]_vars

\* the factory on its own: callers resolve providers and clear the cache
InitFactory == InitCall /\ providers = NoProviders /\ hasKey /\ args = NoArgs

NextFactory == GetProvider \/ clearCache

SpecFactory == InitFactory /\ [][NextFactory]_vars

\* ------------------------------------------------------------ observations
Ended == pc \in {"returned", "threw"}

RECURSIVE Flatten(_)
Flatten(ss) == IF ss = <<>> THEN <<>> ELSE Head(ss) \o Flatten(Tail(ss))

LetterIndex(l) == CHOOSE i \in 1..Len(Letters) : Letters[i] = l

\* the content fields of the content frames of a body, in frame order
RECURSIVE ContentFragments(_, _)
ContentFragments(kinds, i) ==
    IF i > Len(kinds) THEN <<>>
    ELSE (IF kinds[i] = "content" THEN <<(<<Letters[i]>>)>> ELSE <<>>)
         \o ContentFragments(kinds, i + 1)

\* every read chunk ends at the end of a frame
FrameAligned ==
    \A i \in 1..Len(chunksRead) : chunksRead[i][Len(chunksRead[i])] = NL

\* number of tokens of the first n frames of a body
RECURSIVE WireLen(_, _)
WireLen(kinds, n) ==
    IF n = 0 THEN 0 ELSE WireLen(kinds, n - 1) + Len(FrameWire(kinds[n], n))

\* chunk c, whose first token is token base + 1 of the body, without tokens lo..hi
RECURSIVE DropSpan(_, _, _, _)
DropSpan(c, base, lo, hi) ==
    IF c = <<>> THEN <<>>
    ELSE (IF base + 1 >= lo /\ base + 1 <= hi THEN <<>> ELSE <<Head(c)>>)
         \o DropSpan(Tail(c), base + 1, lo, hi)

RECURSIVE DropSpanChunks(_, _, _, _)
DropSpanChunks(cs, base, lo, hi) ==
    IF cs = <<>> THEN <<>>
    ELSE <<DropSpan(Head(cs), base, lo, hi)>>
         \o DropSpanChunks(Tail(cs), base + Len(Head(cs)), lo, hi)

\* the chunks read, with the bytes of frame i taken out of the feed
WithoutFrame(i) ==
    DropSpanChunks(chunksRead, 0, WireLen(frames, i - 1) + 1, WireLen(frames, i))

\* ------------------------------------------------------------------- claims

\* C1: for a body of well-formed content frames, split into read chunks in
\* any way and never cancelled, the fragments delivered are the frames'
\* content fields in frame order and their concatenation is the returned text.
C1_StreamConcat ==
    (pc = "returned" /\ ~aborted /\ \A i \in 1..Len(frames) : frames[i] = "content")
        => /\ delivered = ContentFragments(frames, 1)
           /\ result.text = Flatten(ContentFragments(frames, 1))

\* C2: in every state the accumulated text is the concatenation of the
\* fragments delivered so far, the fragments are delivered in arrival order,
\* and the text the decoder returns is the concatenation of all of them.
C2_AccumulatedIsDelivered ==
    /\ fullContent = Flatten(delivered)
    /\ \A i, j \in 1..Len(delivered) :
          i < j => LetterIndex(delivered[i][1]) < LetterIndex(delivered[j][1])
    /\ pc = "returned" => result.text = Flatten(delivered)

C2_Witness ==
    /\ pc = "returned"
    /\ aborted
    /\ Len(delivered) >= 2
    /\ \E i \in 1..Len(frames) : frames[i] \in {"bad", "tool", "done"}

\* C3: a decode that is not cancelled and whose body holds a malformed frame
\* reads the whole body, raises no error, and delivers and returns what it
\* does for the same feed with the bytes of the malformed frame removed.
C3_MalformedFrameSkipped ==
    (Ended /\ ~aborted /\ result.error # "NetworkError")
        => \A i \in 1..Len(frames) :
             frames[i] = "bad"
                 => LET other == DecodeChunks(EmptyDecode, WithoutFrame(i))
                    IN /\ pc = "returned"
                       /\ wire = <<>>
                       /\ delivered = other.out
                       /\ result.text = other.full

C3_Witness ==
    /\ pc = "returned"
    /\ ~aborted
    /\ frames = <<"content", "bad", "content">>
    /\ delivered = << <<"a">>, <<"c">> >>

\* C4: once the signal has been triggered after K fragments were delivered,
\* no further fragment is delivered or accumulated, and the decode returns
\* the concatenation of exactly those K fragments.
C4_CancelKeepsK ==
    aborted
        => /\ Len(delivered) = abortMark
           /\ fullContent = Flatten(SubSeq(delivered, 1, abortMark))
           /\ pc = "returned" => result.text = Flatten(SubSeq(delivered, 1, abortMark))

\* C5: a cancelled call never throws: unless it fails for another reason
\* (no credential, an HTTP error status, a network error, a throwing usage
\* hook), a call whose signal
\* was triggered resolves, and a streaming call resolves with the text
\* accumulated so far.
C5_CancelNeverThrows ==
    (/\ pc = "done"
     /\ aborted
     /\ callResult.error \notin {"MissingCredential", "HttpError", "NetworkError",
                                  "UsageHookError"}
     /\ unifiedResult.error # "UsageHookError")
        => /\ callResult.kind = "resolved"
           /\ unifiedResult.kind = "resolved"
           /\ stream => callResult.text = fullContent

\* C6: when the Kimi tool loop has handled a tool-call response and the
\* signal is triggered before the follow-up request, no further request goes
\* out and the call ends without an error (unless the credential was
\* removed meanwhile or the usage hook throws).
C6_LoopCancelEndsCleanly ==
    followUpMark # -1
        => /\ requests = followUpMark
           /\ (/\ pc = "done"
               /\ callResult.error \notin {"MissingCredential", "UsageHookError"}
               /\ unifiedResult.error # "UsageHookError")
              => (callResult.kind = "resolved" /\ unifiedResult.kind = "resolved")

\* the outcome of a decode that is not cancelled and whose body is empty
NothingOutcome ==
    [kind |-> "resolved", text |-> DecodeChunks(EmptyDecode, <<>>).full, error |-> "none"]

\* C7 (as stated): a decode cancelled before any chunk was read ends with an
\* outcome that differs from the outcome of an uncancelled decode of a body
\* without content.
C7_CancelledEmptyDistinct ==
    (pc = "returned" /\ aborted /\ readsAtAbort = 0) => result # NothingOutcome

\* C7 (amended): a decode cancelled before any chunk was read resolves with
\* the empty text and no error, which is the very outcome of an uncancelled
\* decode of a body without content; cancellation never makes it reject.
C7_CancelledBeforeReadIsEmpty ==
    /\ (Ended /\ aborted /\ readsAtAbort = 0 /\ result.error # "NetworkError")
          => result = NothingOutcome
    /\ (pc = "returned" /\ ~aborted /\ ContentFragments(frames, 1) = <<>> /\ FrameAligned)
          => result = NothingOutcome
    /\ pc = "threw" => result.error = "NetworkError"

C7_Witness ==
    /\ pc = "returned"
    /\ aborted
    /\ readsAtAbort = 0
    /\ chunksRead = <<>>
    /\ frames # <<>>
    /\ frames[1] = "content"

\* C8: once the sentinel '[DONE]' has been seen, no content of a later
\* frame is delivered or added to the text.
C8_DoneEndsStream ==
    doneMark # -1
        => /\ Len(delivered) = doneMark
           /\ fullContent = Flatten(SubSeq(delivered, 1, doneMark))

\* C9: a frame with finish_reason 'tool_calls' emits no fragment and does not
\* end the decode: with whole frames in every chunk, every content frame of
\* the body is delivered, those after the marker included.
C9_ToolMarkerKeepsStream ==
    (/\ pc = "returned"
     /\ ~aborted
     /\ FrameAligned
     /\ \A i \in 1..Len(frames) : frames[i] \in {"content", "tool"})
        => delivered = ContentFragments(frames, 1)

\* C10: the reader is released exactly once on every exit path, and is held
\* until then.
C10_ReleasedOnce ==
    /\ releases <= 1
    /\ lockHeld <=> releases = 0
    /\ Ended <=> releases = 1

C10_Witness ==
    /\ pc = "threw"
    /\ result.error = "NetworkError"
    /\ releases = 1
    /\ ~lockHeld
    /\ delivered # <<>>

\* C11: two getProvider calls with the same registered id return the same
\* instance when no clearCache came between them, whatever other ids were
\* resolved in between, and distinct instances when a clearCache came between.
C11_CachedUntilCleared ==
    \A i \in DOMAIN lookups : \A j \in DOMAIN lookups :
        (i < j /\ lookups[i].id = lookups[j].id /\ lookups[i].id \in Models)
        => /\ lookups[i].instance # Throws
           /\ lookups[j].instance # Throws
           /\ (lookups[i].clears = lookups[j].clears)
              <=> (lookups[i].instance = lookups[j].instance)

\* the same id resolved twice around another id, and again after a clearCache
C11_Witness ==
    \E i, j, k, l \in DOMAIN lookups :
        /\ i < j /\ j < k /\ k < l
        /\ lookups[i].id = "kimi" /\ lookups[j].id = "deepseek-v3.1"
        /\ lookups[k].id = "kimi" /\ lookups[l].id = "kimi"
        /\ lookups[i].clears = lookups[k].clears
        /\ lookups[k].clears < lookups[l].clears

\* C12: callUnifiedAiApi with an id that is not registered rejects with the
\* unsupported-model error; getProvider leaves the cache as it was (no entry
\* inserted, the existing entries untouched), no request is issued and the
\* usage hook is not invoked.
C12_UnsupportedModelRejected ==
    [][(pc = "idle" /\ pc' # "idle" /\ provider' \notin Models)
       => /\ providers' = providers
          /\ instances' = instances
          /\ pc' = "done"
          /\ unifiedResult'.kind = "rejected"
          /\ unifiedResult'.error = "UnsupportedModel"
          /\ requests' = 0
          /\ usage' = <<>>]_vars

\* an unregistered id was passed while the cache held both providers
C12_Witness ==
    /\ pc = "done"
    /\ provider = "gpt-4"
    /\ providers = CachedAll
    /\ unifiedResult.error = "UnsupportedModel"

\* C13: a call made while no credential is configured issues no request and
\* rejects with the missing-credential error; every request that goes out,
\* each follow-up request of the Kimi tool loop included, is issued in a step
\* whose credential check succeeded.
C13_CredentialBeforeRequest ==
    [][/\ (requests' # requests) => hasKey
       /\ (pc = "idle" /\ pc' # "idle" /\ provider' \in Models /\ ~hasKey)
          => /\ pc' = "done"
             /\ requests' = 0
             /\ callResult'.kind = "rejected"
             /\ callResult'.error = "MissingCredential"
             /\ unifiedResult' = callResult'
       /\ (pc = "jsonSettled" /\ pc' \in {"fetching", "fetchSettled"}) => hasKey]_vars

\* the key was blanked during the first round-trip of a Kimi tool loop and
\* the follow-up request was refused
C13_Witness ==
    /\ pc = "done"
    /\ provider = "kimi"
    /\ requests = 1
    /\ toolCallCount = 1
    /\ callResult.error = "MissingCredential"

\* C14: when a request is answered with a non-success HTTP status the call
\* rejects with an error that carries the status code and, when the error
\* body parsed, the upstream message; the response is not decoded,
\* onStreamChunk is never invoked, the usage hook is not invoked and the
\* caller of callUnifiedAiApi gets the same error.
C14_HttpErrorRejects ==
    fetchOutcome = "httpError"
    => /\ pc \in {"fetchSettled", "errorBody", "done"}
       /\ delivered = <<>>
       /\ chunksRead = <<>>
       /\ ~lockHeld
       /\ pc = "done"
          => /\ callResult.kind = "rejected"
             /\ callResult.error = "HttpError"
             /\ callResult.status = httpStatus
             /\ callResult.status \in ErrorStatuses
             /\ callResult.message = errorData
             /\ unifiedResult = callResult
             /\ usage = <<>>

\* a follow-up request of the tool loop was answered 500 with a message
C14_Witness ==
    /\ pc = "done"
    /\ fetchOutcome = "httpError"
    /\ requests = 2
    /\ callResult.status = 500
    /\ callResult.message = UpstreamMessage

\* no trackUsage invocation threw
HookHeld == \A i \in DOMAIN usage : ~usage[i].threw

\* C15: a non-streaming Kimi call whose every request is answered with a
\* tool-call request (finish_reason 'tool_calls', at least one tool call)
\* ends after exactly 5 round-trips and resolves; reaching the cap raises no
\* error.
C15_CapEndsNormally ==
    (provider = "kimi" /\ ~stream /\ toolCallCount = requests)
    => /\ requests <= maxToolCalls
       /\ requests = maxToolCalls
          => /\ pc = "done"
             /\ callResult.error \in {"none", "UsageHookError"}
             /\ HookHeld => (callResult.kind = "resolved" /\ unifiedResult.kind = "resolved")
       /\ (pc = "done" /\ callResult.kind = "resolved") => requests = maxToolCalls

\* five tool-call responses were received and the call resolved
C15_Witness ==
    /\ pc = "done"
    /\ provider = "kimi"
    /\ ~stream
    /\ toolCallCount = maxToolCalls
    /\ requests = maxToolCalls
    /\ unifiedResult.kind = "resolved"

\* C16: when the Kimi tool loop stops at the cap, the text the call resolves
\* with is the content of the assistant message of the last response
\* received (possibly empty).
C16_CapReturnsLastText ==
    (/\ pc = "done"
     /\ provider = "kimi"
     /\ ~stream
     /\ toolCallCount = maxToolCalls
     /\ callResult.kind = "resolved")
    => callResult.text = jsonOutcome.content

\* C17: the Kimi tool loop issues at most 5 requests whatever the provider
\* answers, responses with finish_reason 'tool_calls' and a missing or empty
\* tool_calls list included.
C17_AtMostFiveRequests ==
    provider = "kimi" => requests <= maxToolCalls

\* C18: a callUnifiedAiApi call that resolves has invoked trackUsage exactly
\* once, with the resolved text as outputText, for each registered id; a call
\* that rejects has not invoked it.
C18_OneUsageRecord ==
    (pc = "done" /\ provider \in Models /\ HookHeld)
    => IF unifiedResult.kind = "resolved"
       THEN Len(usage) = 1 /\ usage[1].output = unifiedResult.text
       ELSE usage = <<>>

\* C19: when trackUsage throws after the provider call produced its text,
\* callUnifiedAiApi still resolves with that text.
C19_HookFailureSwallowed ==
    (pc = "done" /\ usage # <<>> /\ ~HookHeld)
    => unifiedResult = Returned(usage[1].output)

\* C20: when a non-streaming Kimi response has finish_reason 'tool_calls' and
\* tool calls t1..tn, the conversation of the follow-up request is the
\* conversation of the previous request, then one assistant message with the
\* response's content and t1..tn, then exactly n tool-role messages answering
\* t1..tn in that order; the follow-up goes out with all n of them in place.
C20_FollowUpConversation ==
    [][(pc = "jsonSettled" /\ jsonOutcome.ntools > 0 /\ requests' = requests + 1)
       => LET n == jsonOutcome.ntools
              t == ToolCallsOf(jsonOutcome, requests)
              k == Len(sent)
          IN /\ Len(sent') = k + 1 + n
             /\ SubSeq(sent', 1, k) = sent
             /\ sent'[k + 1].role = "assistant"
             /\ sent'[k + 1].content = jsonOutcome.content
             /\ sent'[k + 1].tool_calls = t
             /\ \A i \in 1..n :
                   /\ sent'[k + 1 + i].role = "tool"
                   /\ sent'[k + 1 + i].tool_call_id = t[i].id]_vars

\* a second follow-up went out after two responses with two tool calls each
C20_Witness ==
    /\ pc = "fetching"
    /\ requests = 3
    /\ Len(sent) = 7
    /\ sent[6].role = "tool"
    /\ sent[6].tool_call_id # sent[7].tool_call_id

\* a is an initial segment of b
IsPrefix(a, b) == Len(a) <= Len(b) /\ SubSeq(b, 1, Len(a)) = a

\* C21: the tool loop only appends: the first request of a Kimi call carries
\* exactly the caller's messages, the messages of each request are an initial
\* segment of the messages of the next one, and the caller's array is never
\* changed.
C21_LoopOnlyAppends ==
    [][/\ messages' = messages
       /\ (provider' = "kimi" /\ requests' = requests + 1)
          => IF requests = 0 THEN sent' = messages ELSE IsPrefix(sent, sent')]_vars

\* a third request went out with more messages than the caller passed
C21_Witness ==
    /\ provider = "kimi"
    /\ requests = 3
    /\ pc = "fetching"
    /\ Len(sent) > Len(messages)
    /\ messages = CallerMessages

\* the tool-role messages of a conversation, in order
ToolMessagesOf(msgs) == SelectSeq(msgs, LAMBDA msg : msg.role = "tool")

\* C22: every tool-role message the loop appends carries the id of a tool
\* call of the response just received, each tool call of that response is
\* answered by exactly one appended tool message, and tool messages are
\* appended at no other point.
C22_ToolCallIdsFromResponse ==
    [][LET before == ToolMessagesOf(currentMessages)
           after == ToolMessagesOf(currentMessages')
           new == SubSeq(after, Len(before) + 1, Len(after))
           emitted == ToolCallsOf(jsonOutcome, requests)
       IN IF pc = "jsonSettled" /\ currentMessages' # currentMessages
          THEN /\ \A i \in DOMAIN new :
                     \E j \in DOMAIN emitted : new[i].tool_call_id = emitted[j].id
               /\ \A j \in DOMAIN emitted :
                     Cardinality({i \in DOMAIN new :
                                     new[i].tool_call_id = emitted[j].id}) = 1
          ELSE after = before \/ (pc = "idle" /\ after = <<>>)]_vars

\* two rounds of two tool calls were answered: four tool messages, four ids
C22_Witness ==
    /\ toolCallCount = 2
    /\ Len(ToolMessagesOf(currentMessages)) = 4
    /\ Cardinality({ToolMessagesOf(currentMessages)[i].tool_call_id : i \in 1..4}) = 4

\* C23: a Kimi call whose config.stream is not false does not use the tool
\* loop: it issues one request, never appends to the conversation, never
\* counts a tool round or parses a non-streaming body, and resolves with
\* the text the stream decoder returned, also when the stream carries the
\* tool-call marker.
C23_NoToolLoopWhenStreaming ==
    (provider = "kimi" /\ UnifiedConfig(args).stream # "false")
    => /\ requests <= 1
       /\ currentMessages = messages
       /\ toolCallCount = 0
       /\ pc \notin {"parsing", "jsonSettled"}
       /\ (pc = "done" /\ callResult.kind = "resolved")
          => /\ requests = 1
             /\ result.kind = "resolved"
             /\ callResult.text = result.text

\* a streamed Kimi call whose body held a tool-call marker has resolved
C23_Witness ==
    /\ pc = "done"
    /\ provider = "kimi"
    /\ args.stream = "unset"
    /\ frames = <<"tool">>
    /\ callResult.kind = "resolved"
    /\ requests = 1

\* the tool call the provider emitted under an id
EmittedToolCall(id) == ToolCallsOf([ntools |-> id[2]], id[1])[id[2]]

UnsupportedToolText(name) == <<"unsupported tool: ", name>>

\* C24 (as stated): the content of a tool message is, for '$web_search', the
\* arguments re-serialized when they parse as JSON with a query field and
\* the raw argument text otherwise; for any other tool name it is the
\* unsupported-tool message naming the tool.
C24_ToolContentByName ==
    \A k \in DOMAIN currentMessages :
        currentMessages[k].role = "tool"
        => LET tc == EmittedToolCall(currentMessages[k].tool_call_id)
               hasQueryField == \E i \in DOMAIN tc.arguments :
                                   tc.arguments[i] \in {QUERY, EMPTYQUERY}
           IN currentMessages[k].content =
                 IF tc.name # "$web_search" THEN UnsupportedToolText(tc.name)
                 ELSE IF ArgsParse(tc.arguments) /\ hasQueryField
                 THEN ArgsStringify(tc.arguments)
                 ELSE tc.arguments

\* C24 (amended): as above, with the arguments re-serialized only when they
\* parse as JSON with a query that is not empty; with an empty query, no
\* query or unparseable arguments the content is the raw argument text.
C24_ToolContentByNameNonEmptyQuery ==
    \A k \in DOMAIN currentMessages :
        currentMessages[k].role = "tool"
        => LET tc == EmittedToolCall(currentMessages[k].tool_call_id)
               hasQuery == \E i \in DOMAIN tc.arguments : tc.arguments[i] = QUERY
           IN currentMessages[k].content =
                 IF tc.name # "$web_search" THEN UnsupportedToolText(tc.name)
                 ELSE IF ArgsParse(tc.arguments) /\ hasQuery
                 THEN ArgsStringify(tc.arguments)
                 ELSE tc.arguments

\* all five kinds of tool call were answered and a further request went out
C24_Witness ==
    /\ pc = "fetching"
    /\ toolCallCount = 4
    /\ \E k \in DOMAIN sent : sent[k].content = UnsupportedToolText("lookup")
    /\ \E k \in DOMAIN sent : sent[k].content = <<LB, QUERY, RB>>
    /\ \E k \in DOMAIN sent : sent[k].content = <<LB, QUERY>>
    /\ \E k \in DOMAIN sent : sent[k].content = <<LB, WS, RB>>
    /\ \E k \in DOMAIN sent : sent[k].content = <<LB, WS, EMPTYQUERY, RB>>

\* the call is inside processStreamResponse
InStreamDecoder == pc \in {"check", "reading", "readSettled", "lines", "returned", "threw"}

\* C26: callAiApiWithFiles passes stream false exactly when the model is
\* 'kimi' and enableSearch is set, and stream true otherwise; so a call it
\* makes whose request body carries tools is decoded as one JSON document
\* and never handed to the stream decoder.
C26_FilesStreamFlag ==
    args.entry = "files"
    => /\ UnifiedConfig(args).stream =
             IF args.modelId = "kimi" /\ args.enableSearch THEN "false" ELSE "true"
       /\ (requests > 0 /\ requestBody.tools)
             => /\ ~stream
                /\ ~InStreamDecoder
                /\ chunksRead = <<>>

\* a call through callAiApiWithFiles with tools in the body ran a tool round
\* on the JSON path
C26_Witness ==
    /\ args.entry = "files"
    /\ requestBody.tools
    /\ pc = "jsonSettled"
    /\ toolCallCount = 1

\* C27: the stream flag in the body of a request agrees with the way the
\* response to it is decoded, for every config a caller can pass.
C27_BodyStreamMatchesDecoding ==
    requests > 0 => (requestBody.stream <=> stream)

AssistantCount(msgs) == Cardinality({i \in DOMAIN msgs : msgs[i].role = "assistant"})

\* C25: a cached provider instance carries nothing from one call to the
\* next.  Whatever the call before did (tool rounds, cancelled, failed), in
\* every call the conversation starts from the messages passed in, the tool
\* rounds counted are the ones this call made, every request body is built
\* from this call's config and conversation, and the text resolved with is
\* the one of this call's last response.
C25_NoStateBetweenCalls ==
    (pc # "idle" /\ provider \in Models)
    => /\ IsPrefix(messages, currentMessages)
       /\ provider = "kimi" => toolCallCount = AssistantCount(currentMessages)
       /\ provider # "kimi" => currentMessages = messages
       /\ requests > 0
             => /\ IsPrefix(messages, sent)
                /\ pc \in {"fetching", "parsing", "jsonSettled"} => sent = currentMessages
                /\ requestBody = buildRequestBody(args.modelId, UnifiedConfig(args))
       /\ (pc = "done" /\ callResult.kind = "resolved")
             => callResult.text =
                   IF provider # "kimi" THEN processResponse(jsonOutcome)
                   ELSE IF jsonOutcome.finish = TOOL THEN <<>>
                   ELSE IF jsonOutcome.content # <<>> THEN jsonOutcome.content
                   ELSE FALLBACK

\* the second call through the cached instance ran a tool round and resolved,
\* after a first call that ran tool rounds, was cancelled and failed
C25_Witness ==
    /\ calls = 2
    /\ previous = [rounds |-> TRUE, cancelled |-> TRUE, failed |-> TRUE]
    /\ provider = "kimi"
    /\ pc = "done"
    /\ toolCallCount = 1
    /\ callResult.kind = "resolved"
    /\ callResult.text = <<"4">>

\* a message of the conversation of caller c: one it passed in, or one of
\* its own tool rounds
OwnMessage(c, msg) ==
    \/ \E k \in DOMAIN PairMessages(c) : msg = PairMessages(c)[k]
    \/ /\ msg.role = "assistant"
       /\ \A k \in DOMAIN msg.content : msg.content[k] \in OwnLetters(c)
       /\ \A k \in DOMAIN msg.tool_calls : Head(msg.tool_calls[k].id) = c
    \/ /\ msg.role = "tool"
       /\ Head(msg.tool_call_id) = c

\* C28: two calls in flight at once through the same cached provider do not
\* interfere: the callback of each is given only fragments of its own
\* response, the requests of each carry only its own messages and tool
\* rounds, and each resolves with text made of its own response.
C28_ConcurrentCallsIsolated ==
    \A c \in PairCalls :
        /\ \A k \in DOMAIN pairCall[c].delivered :
              \A j \in DOMAIN pairCall[c].delivered[k] :
                  pairCall[c].delivered[k][j] \in OwnLetters(c)
        /\ \A k \in DOMAIN pairCall[c].sent : OwnMessage(c, pairCall[c].sent[k])
        /\ pairCall[c].pc # "idle" => IsPrefix(PairMessages(c), pairCall[c].sent)
        /\ pairCall[c].pc = "done"
              => IF StreamRequested([stream |-> pairCall[c].stream])
                 THEN pairCall[c].text = Flatten(pairCall[c].delivered)
                 ELSE \/ pairCall[c].text \in {<<>>, FALLBACK}
                      \/ \A j \in DOMAIN pairCall[c].text :
                            pairCall[c].text[j] \in OwnLetters(c)

\* the first call is in the middle of its stream with a fragment delivered
\* while the second is waiting for the answer to the request after a tool round
C28_Witness ==
    /\ pairCall[1].pc = "reading"
    /\ pairCall[1].delivered # <<>>
    /\ pairCall[2].pc = "fetching"
    /\ Len(pairCall[2].sent) > 1

\* C29: an exception thrown by onStreamChunk does not fail or halt the
\* streaming call.  Once the callback has thrown, the fragment it was
\* called with is part of the text, the decoder fails only when a read
\* fails, and a decode that is not cancelled goes on to the end of the body
\* and delivers and returns what it would with a callback that never throws.
C29_CallbackExceptionAbsorbed ==
    throwMark # -1
    => /\ Len(delivered) >= throwMark
       /\ fullContent = Flatten(delivered)
       /\ pc = "threw" => result.error = "NetworkError"
       /\ (pc = "returned" /\ ~aborted)
             => /\ wire = <<>>
                /\ delivered = DecodeChunks(EmptyDecode, chunksRead).out
                /\ result.text = DecodeChunks(EmptyDecode, chunksRead).full

\* the callback threw on the first fragment and two more were delivered
\* before the decoder returned all three
C29_Witness ==
    /\ throwMark = 1
    /\ pc = "returned"
    /\ ~aborted
    /\ Len(delivered) = 3
    /\ result.text = Flatten(delivered)

\* a call decoded as one JSON document has resolved with text
ResolvedFromJson ==
    /\ pc = "done"
    /\ ~stream
    /\ callResult.kind = "resolved"
    /\ jsonOutcome.kind = "ok"

\* C30 (as stated): non-streaming decoding of the base provider returns
\* the response's content when it is not empty and returns empty text only
\* when the response has the tool-call marker; a response with empty content
\* and no marker gives the fallback text, in the base provider and in the
\* Kimi loop, never the empty string.
C30_NonStreamingText ==
    ResolvedFromJson
    => /\ provider # "kimi"
             => /\ jsonOutcome.content # <<>> => callResult.text = jsonOutcome.content
                /\ callResult.text = <<>> => jsonOutcome.finish = TOOL
       /\ (jsonOutcome.content = <<>> /\ jsonOutcome.finish # TOOL)
             => callResult.text = FALLBACK /\ callResult.text # <<>>

\* C30 (amended): the base provider returns empty text exactly when the
\* response has the tool-call marker, whatever its content, and otherwise
\* the content when it is not empty; a response with empty content and no
\* marker gives the fallback text, in the base provider and in the Kimi
\* loop, never the empty string.
C30_NonStreamingTextMarkerFirst ==
    ResolvedFromJson
    => /\ provider # "kimi"
             => /\ jsonOutcome.finish = TOOL => callResult.text = <<>>
                /\ (jsonOutcome.finish # TOOL /\ jsonOutcome.content # <<>>)
                      => callResult.text = jsonOutcome.content
                /\ callResult.text = <<>> => jsonOutcome.finish = TOOL
       /\ (provider = "kimi" /\ jsonOutcome.finish # TOOL /\ jsonOutcome.content # <<>>)
             => callResult.text = jsonOutcome.content
       /\ (jsonOutcome.content = <<>> /\ jsonOutcome.finish # TOOL)
             => callResult.text = FALLBACK /\ callResult.text # <<>>

\* the base provider resolved with empty text for a response that has both
\* the tool-call marker and content
C30_Witness ==
    /\ ResolvedFromJson
    /\ provider = "deepseek-v3.1"
    /\ jsonOutcome.finish = TOOL
    /\ jsonOutcome.content # <<>>
    /\ callResult.text = <<>>
====
